---- MODULE Spec2Model ----
(***************************************************************************)
(* A model of eloquent-ffmpeg's src/string.ts (the value serializer: the   *)
(* filter-description stringifier, the four escaping functions and the     *)
(* timestamp parser) and src/types.ts (the probe mapper: ProbeResult, the  *)
(* four Stream classes and Chapter).                                       *)
(*                                                                         *)
(* Every function of the two files is pure, so a behaviour is one call:    *)
(* Init draws the function and its input, the function's action applies    *)
(* it and stores what it returns.                                          *)
(*                                                                         *)
(* Representation.                                                         *)
(*  - A JavaScript string is a sequence of one-character strings.          *)
(*  - A JavaScript number is NaN, an infinity, or a finite decimal held    *)
(*    exactly as  h * Base + l + fn / fd  (see Fin below): TLC's integers  *)
(*    are 32 bits wide, the program's |0 and >>>0 wrap at 2^32 and its     *)
(*    millisecond counts pass 2^31, so the integer part is kept in two     *)
(*    limbs.  Negative zero is identified with zero, and the rounding of   *)
(*    IEEE doubles is not modelled: arithmetic is exact.                   *)
(*  - A JavaScript value is a record tagged by t: "undefined", "null",     *)
(*    "bool", "num", "str", "date", "obj" (its own entries, in order) or   *)
(*    "arr".                                                               *)
(***************************************************************************)
EXTENDS Integers, Sequences, FiniteSets

VARIABLES pc, op, arg, ret

vars == <<pc, op, arg, ret>>

(***************************************************************************)
(* Texts                                                                   *)
(***************************************************************************)

\* The sequences over S of length at most n.
SeqsUpTo(S, n) == UNION {[1..k -> S] : k \in 0..n}

\* Array.prototype.join: the texts of parts with sep between them.
RECURSIVE Join(_, _)
Join(parts, sep) ==
  IF parts = <<>> THEN <<>>
  ELSE IF Len(parts) = 1 THEN parts[1]
  ELSE parts[1] \o sep \o Join(Tail(parts), sep)

\* The first position of c in s at or after i, or 0.
RECURSIVE IndexFrom(_, _, _)
IndexFrom(s, c, i) ==
  IF i > Len(s) THEN 0 ELSE IF s[i] = c THEN i ELSE IndexFrom(s, c, i + 1)

\* String.prototype.indexOf for one character, counted from 1: 0 when c is
\* not in s.
IndexOf(s, c) == IndexFrom(s, c, 1)

DigitChars == <<"0", "1", "2", "3", "4", "5", "6", "7", "8", "9">>

IsDigit(c) == c \in {"0", "1", "2", "3", "4", "5", "6", "7", "8", "9"}

DigitVal(c) == IndexOf(DigitChars, c) - 1

AllDigits(s) == \A i \in 1..Len(s) : IsDigit(s[i])

UpperChars == <<"A", "B", "C", "D", "E", "F", "G", "H", "I", "J", "K", "L", "M",
                "N", "O", "P", "Q", "R", "S", "T", "U", "V", "W", "X", "Y", "Z">>

LowerChars == <<"a", "b", "c", "d", "e", "f", "g", "h", "i", "j", "k", "l", "m",
                "n", "o", "p", "q", "r", "s", "t", "u", "v", "w", "x", "y", "z">>

\* String.prototype.toLowerCase on the ASCII letters.
LowerCase(s) ==
  [i \in 1..Len(s) |->
     IF s[i] \in {UpperChars[k] : k \in 1..26} THEN LowerChars[IndexOf(UpperChars, s[i])]
     ELSE s[i]]

RECURSIVE Pow10(_)
Pow10(n) == IF n = 0 THEN 1 ELSE 10 * Pow10(n - 1)

(***************************************************************************)
(* Numbers                                                                 *)
(***************************************************************************)

Base == 256 * 256

NaN == [k |-> "nan"]

PosInf == [k |-> "inf"]

NegInf == [k |-> "ninf"]

\* The largest power of ten dividing both fn and the power of ten fd.
RECURSIVE CommonTens(_, _)
CommonTens(fn, fd) ==
  IF fd > 1 /\ fn % 10 = 0 THEN 10 * CommonTens(fn \div 10, fd \div 10) ELSE 1

\* The finite number H * Base + L + FN / FD, for any integers H, L, FN and a
\* power of ten FD, in canonical form: 0 <= l < Base, 0 <= fn < fd, and fd
\* the least power of ten that holds the fraction.
Fin(H, L, FN, FD) ==
  LET L1 == L + (FN \div FD)
      f  == FN % FD
      g  == CommonTens(f, FD)
  IN  [k |-> "fin", h |-> H + (L1 \div Base), l |-> L1 % Base,
       fn |-> f \div g, fd |-> FD \div g]

Num(i) == Fin(0, i, 0, 1)

IsFin(x) == x.k = "fin"

IsZero(x) == IsFin(x) /\ x.h = 0 /\ x.l = 0 /\ x.fn = 0

IsNeg(x) == x.k = "ninf" \/ (IsFin(x) /\ x.h < 0)

IsInteger(x) == IsFin(x) /\ x.fn = 0

\* x * c for an integer c.
Mul(x, c) ==
  IF IsFin(x) THEN Fin(x.h * c, x.l * c, x.fn * c, x.fd)
  ELSE IF x.k = "nan" \/ c = 0 THEN NaN
  ELSE IF (x.k = "inf") = (c > 0) THEN PosInf ELSE NegInf

\* x + y.
Add(x, y) ==
  IF x.k = "nan" \/ y.k = "nan" THEN NaN
  ELSE IF IsFin(x) /\ IsFin(y) THEN
    LET d == IF x.fd > y.fd THEN x.fd ELSE y.fd
    IN  Fin(x.h + y.h, x.l + y.l, x.fn * (d \div x.fd) + y.fn * (d \div y.fd), d)
  ELSE IF IsFin(x) THEN y
  ELSE IF IsFin(y) \/ x.k = y.k THEN x
  ELSE NaN

\* Math.floor.
Floor(x) == IF IsFin(x) THEN Fin(x.h, x.l, 0, 1) ELSE x

\* Truncation toward zero of a finite number.
Trunc(x) == IF x.h < 0 /\ x.fn # 0 THEN Fin(x.h, x.l + 1, 0, 1) ELSE Fin(x.h, x.l, 0, 1)

\* ToUint32, the coercion of >>> 0: modulo 2^32 into 0 .. 2^32 - 1.
ToUint32(x) ==
  IF ~IsFin(x) THEN Num(0)
  ELSE LET t == Trunc(x) IN Fin(t.h % Base, t.l, 0, 1)

\* ToInt32, the coercion of | 0: modulo 2^32 into -2^31 .. 2^31 - 1.
ToInt32(x) ==
  LET u == ToUint32(x)
  IN  IF u.h >= Base \div 2 THEN Fin(u.h - Base, u.l, 0, 1) ELSE u

\* The decimal digits of the non-negative integer h * Base + l.
RECURSIVE IntDigits(_, _)
IntDigits(h, l) ==
  LET t == (h % 10) * Base + l
      qh == h \div 10
      ql == t \div 10
      d == <<DigitChars[(t % 10) + 1]>>
  IN  IF qh = 0 /\ ql = 0 THEN d ELSE IntDigits(qh, ql) \o d

\* The n decimal digits of v, zero-padded on the left.
RECURSIVE PadDigits(_, _)
PadDigits(v, n) ==
  IF n = 0 THEN <<>> ELSE PadDigits(v \div 10, n - 1) \o <<DigitChars[(v % 10) + 1]>>

\* The number of decimal digits after the point of a fraction over fd = 10^n.
RECURSIVE Log10(_)
Log10(fd) == IF fd <= 1 THEN 0 ELSE 1 + Log10(fd \div 10)

\* Number::toString for the numbers of the model (no exponent form is
\* reached: magnitudes stay between 1e-6 and 1e21).
NumToStr(x) ==
  IF x.k = "nan" THEN <<"N", "a", "N">>
  ELSE IF x.k = "inf" THEN <<"I", "n", "f", "i", "n", "i", "t", "y">>
  ELSE IF x.k = "ninf" THEN <<"-", "I", "n", "f", "i", "n", "i", "t", "y">>
  ELSE LET a == IF IsNeg(x) THEN Mul(x, -1) ELSE x
           whole == IntDigits(a.h, a.l)
           frac == IF a.fn = 0 THEN <<>> ELSE <<".">> \o PadDigits(a.fn, Log10(a.fd))
       IN  (IF IsNeg(x) THEN <<"-">> ELSE <<>>) \o whole \o frac

\* The value of a run of decimal digits read as an integer.
RECURSIVE DigitsToNum(_)
DigitsToNum(s) ==
  IF s = <<>> THEN Num(0)
  ELSE Add(Mul(DigitsToNum(SubSeq(s, 1, Len(s) - 1)), 10), Num(DigitVal(s[Len(s)])))

\* The value of a run of decimal digits read after a decimal point.
FractionToNum(s) ==
  IF s = <<>> THEN Num(0) ELSE LET v == DigitsToNum(s) IN Fin(0, 0, v.h * Base + v.l, Pow10(Len(s)))

\* StringToNumber on the decimal literals [+-]digits[.digits] and
\* [+-].digits; the empty text is 0 and any other text is NaN.  (Exponents,
\* hexadecimal, "Infinity" and surrounding white space are not modelled: no
\* text of the model uses them.)
StringToNumber(s) ==
  LET signed == s # <<>> /\ s[1] \in {"+", "-"}
      body == IF signed THEN Tail(s) ELSE s
      dot == IndexOf(body, ".")
      ip == IF dot = 0 THEN body ELSE SubSeq(body, 1, dot - 1)
      fp == IF dot = 0 THEN <<>> ELSE SubSeq(body, dot + 1, Len(body))
      v == Add(DigitsToNum(ip), FractionToNum(fp))
  IN  IF s = <<>> THEN Num(0)
      ELSE IF ~(AllDigits(ip) /\ AllDigits(fp)) \/ (ip = <<>> /\ fp = <<>>) THEN NaN
      ELSE IF signed /\ s[1] = "-" THEN Mul(v, -1) ELSE v

(***************************************************************************)
(* JavaScript values and their coercions                                   *)
(***************************************************************************)

Undefined == [t |-> "undefined"]

Null == [t |-> "null"]

Bool(b) == [t |-> "bool", b |-> b]

NumV(n) == [t |-> "num", n |-> n]

Str(s) == [t |-> "str", s |-> s]

\* A Date, as its time value in milliseconds since the epoch.
DateV(ms) == [t |-> "date", ms |-> ms]

\* An object, as the sequence of its own <<key, value>> entries in the
\* order Object.entries gives them.
Obj(entries) == [t |-> "obj", e |-> entries]

Arr(items) == [t |-> "arr", a |-> items]

\* Whether the object has an own property named key.
HasOwn(v, key) == \E i \in 1..Len(v.e) : v.e[i][1] = key

\* Whether ToPrimitive(v) throws a TypeError.  An object read from JSON
\* holds no function, so an own "toString" property hides
\* Object.prototype.toString and leaves OrdinaryToPrimitive nothing to call
\* (Object.prototype.valueOf returns the object itself); an array is joined
\* from the texts of its elements.
RECURSIVE Throws(_)
Throws(v) ==
  CASE v.t = "obj" -> HasOwn(v, <<"t", "o", "S", "t", "r", "i", "n", "g">>)
    [] v.t = "arr" ->
         \E i \in 1..Len(v.a) : v.a[i].t \notin {"undefined", "null"} /\ Throws(v.a[i])
    [] OTHER -> FALSE

\* ToText(v) is ToString(v), the coercion of '' + v and of `${v}`, where it does not
\* throw.  (A Date is never coerced this way by the code modelled.)
RECURSIVE ToText(_)
ToText(v) ==
  CASE v.t = "undefined" -> <<"u", "n", "d", "e", "f", "i", "n", "e", "d">>
    [] v.t = "null" -> <<"n", "u", "l", "l">>
    [] v.t = "bool" -> IF v.b THEN <<"t", "r", "u", "e">> ELSE <<"f", "a", "l", "s", "e">>
    [] v.t = "num" -> NumToStr(v.n)
    [] v.t = "str" -> v.s
    [] v.t = "obj" -> <<"[", "o", "b", "j", "e", "c", "t", " ", "O", "b", "j", "e", "c", "t", "]">>
    [] v.t = "arr" ->
         Join([i \in 1..Len(v.a) |->
                 IF v.a[i].t \in {"undefined", "null"} THEN <<>> ELSE ToText(v.a[i])],
              <<",">>)

\* ToNumber(v), the coercion of +v and of the operands of *, | and >>>,
\* where it does not throw.
ToNumber(v) ==
  CASE v.t = "undefined" -> NaN
    [] v.t = "null" -> Num(0)
    [] v.t = "bool" -> IF v.b THEN Num(1) ELSE Num(0)
    [] v.t = "num" -> v.n
    [] v.t = "str" -> StringToNumber(v.s)
    [] OTHER -> StringToNumber(ToText(v))

\* ToBoolean(v), the test of !v, of v || w and of a condition.
Truthy(v) ==
  CASE v.t \in {"undefined", "null"} -> FALSE
    [] v.t = "bool" -> v.b
    [] v.t = "num" -> ~(v.n.k = "nan" \/ IsZero(v.n))
    [] v.t = "str" -> v.s # <<>>
    [] OTHER -> TRUE

\* isNullish of ./utils: the value is null or undefined.
isNullish(v) == v.t \in {"undefined", "null"}

\* types.isDate of Node's util.
isDate(v) == v.t = "date"

\* Date.prototype.toISOString for a valid Date: YYYY-MM-DDTHH:mm:ss.sssZ,
\* the civil date computed from the day count (years 0000 to 9999).
toISOString(ms) ==
  LET days == ms \div 86400000
      tod == ms % 86400000
      z == days + 719468
      era == z \div 146097
      doe == z - era * 146097
      yoe == (doe - (doe \div 1460) + (doe \div 36524) - (doe \div 146096)) \div 365
      doy == doe - (365 * yoe + (yoe \div 4) - (yoe \div 100))
      mp == (5 * doy + 2) \div 153
      d == doy - ((153 * mp + 2) \div 5) + 1
      m == IF mp < 10 THEN mp + 3 ELSE mp - 9
      y == yoe + era * 400 + (IF m <= 2 THEN 1 ELSE 0)
  IN  PadDigits(y, 4) \o <<"-">> \o PadDigits(m, 2) \o <<"-">> \o PadDigits(d, 2)
      \o <<"T">> \o PadDigits(tod \div 3600000, 2) \o <<":">>
      \o PadDigits((tod \div 60000) % 60, 2) \o <<":">>
      \o PadDigits((tod \div 1000) % 60, 2) \o <<".">> \o PadDigits(tod % 1000, 3)
      \o <<"Z">>

(***************************************************************************)
(* src/string.ts                                                           *)
(***************************************************************************)

\* s.replace(/[set]/g, (c) => `\\${c}`): every character of set gets one
\* backslash before it, every other character is copied.
RECURSIVE EscapeChars(_, _)
EscapeChars(s, set) ==
  IF s = <<>> THEN <<>>
  ELSE (IF s[1] \in set THEN <<"\\", s[1]>> ELSE <<s[1]>>) \o EscapeChars(Tail(s), set)

FilterValueChars == {"\\", "'", ":"}

FilterDescriptionChars == {"\\", "'", "[", "]", ",", ";"}

ConcatFileChars == {"\\", "'", " "}

\* The tee-component set with the pipe forgotten.
TeeComponentChars_NoPipe == {"\\", "'", " ", "[", "]"}

TeeComponentChars == {"\\", "'", " ", "|", "[", "]"}

escapeFilterValue(s) == EscapeChars(s, FilterValueChars)

escapeFilterDescription(s) == EscapeChars(s, FilterDescriptionChars)

escapeConcatFile(s) == EscapeChars(s, ConcatFileChars)

escapeTeeComponent(s) == EscapeChars(s, TeeComponentChars)

stringifyValue(value) == IF isDate(value) THEN toISOString(value.ms) ELSE ToText(value)

NotNullish(v) == ~isNullish(v)

EntryNotNullish(e) == ~isNullish(e[2])

stringifyArrayColonSeparated(array) ==
  LET kept == SelectSeq(array.a, NotNullish)
  IN  Join([i \in 1..Len(kept) |-> escapeFilterValue(stringifyValue(kept[i]))], <<":">>)

\* The mapping renderer with the escaping of the values forgotten.
stringifyObjectColonSeparated_NoValueEscape(object) ==
  LET kept == SelectSeq(object.e, EntryNotNullish)
  IN  Join([i \in 1..Len(kept) |-> kept[i][1] \o <<"=">> \o stringifyValue(kept[i][2])],
           <<":">>)

stringifyObjectColonSeparated(object) ==
  LET kept == SelectSeq(object.e, EntryNotNullish)
  IN  Join([i \in 1..Len(kept) |->
              kept[i][1] \o <<"=">> \o escapeFilterValue(stringifyValue(kept[i][2]))],
           <<":">>)

\* The stringifier with the test of an empty rendering forgotten.
stringifyFilterDescription_NoEmptyCheck(filter, options) ==
  IF isNullish(options) THEN filter
  ELSE LET opts == IF options.t = "arr" THEN stringifyArrayColonSeparated(options)
                   ELSE stringifyObjectColonSeparated(options)
       IN  filter \o <<"=">> \o escapeFilterDescription(opts)

stringifyFilterDescription(filter, options) ==
  IF isNullish(options) THEN filter
  ELSE LET opts == IF options.t = "arr" THEN stringifyArrayColonSeparated(options)
                   ELSE stringifyObjectColonSeparated(options)
       IN  IF opts = <<>> THEN filter
           ELSE filter \o <<"=">> \o escapeFilterDescription(opts)

\* Two decimal digits at positions i and i + 1 of s: [0-9]{2}.
TwoDigitsAt(s, i) == i + 1 <= Len(s) /\ IsDigit(s[i]) /\ IsDigit(s[i + 1])

CharAt(s, i, c) == i <= Len(s) /\ s[i] = c

\* The end of the longest run of digits of s that starts at position i.
RECURSIVE DigitRunEnd(_, _)
DigitRunEnd(s, i) ==
  IF i + 1 <= Len(s) /\ IsDigit(s[i + 1]) THEN DigitRunEnd(s, i + 1) ELSE i

NoMatch == [matched |-> FALSE]

\* (\.[0-9]+)? at position r: greedy, and undefined when it does not take part.
FractionAt(s, r) ==
  IF CharAt(s, r, ".") /\ r + 1 <= Len(s) /\ IsDigit(s[r + 1])
  THEN Str(SubSeq(s, r, DigitRunEnd(s, r + 1)))
  ELSE Undefined

\* ([0-9]{2}:)?([0-9]{2}):([0-9]{2})(\.[0-9]+)? at position j, after the
\* sign minus: the hours group is tried first and given up on backtracking.
RestAt(s, j, minus) ==
  IF TwoDigitsAt(s, j) /\ CharAt(s, j + 2, ":") /\ TwoDigitsAt(s, j + 3)
     /\ CharAt(s, j + 5, ":") /\ TwoDigitsAt(s, j + 6)
  THEN [matched |-> TRUE, minus |-> minus, HH |-> Str(SubSeq(s, j, j + 2)),
        MM |-> SubSeq(s, j + 3, j + 4), SS |-> SubSeq(s, j + 6, j + 7),
        m |-> FractionAt(s, j + 8)]
  ELSE IF TwoDigitsAt(s, j) /\ CharAt(s, j + 2, ":") /\ TwoDigitsAt(s, j + 3)
  THEN [matched |-> TRUE, minus |-> minus, HH |-> Undefined,
        MM |-> SubSeq(s, j, j + 1), SS |-> SubSeq(s, j + 3, j + 4),
        m |-> FractionAt(s, j + 5)]
  ELSE NoMatch

\* TIMESTAMP_REGEXP tried at position i: (-?) is greedy.
MatchAt(s, i) ==
  IF CharAt(s, i, "-") /\ RestAt(s, i + 1, <<"-">>).matched
  THEN RestAt(s, i + 1, <<"-">>)
  ELSE RestAt(s, i, <<>>)

\* value.match(TIMESTAMP_REGEXP): the regular expression is not anchored, so
\* the match is the one at the leftmost position that has one.
RECURSIVE MatchFrom(_, _)
MatchFrom(s, i) ==
  IF i > Len(s) THEN NoMatch
  ELSE IF MatchAt(s, i).matched THEN MatchAt(s, i)
  ELSE MatchFrom(s, i + 1)

TIMESTAMP_REGEXP(value) == MatchFrom(value, 1)

\* The number made of the groups with an hour counted as a minute.
TimestampOf_HoursAsMinutes(minus, HH, MM, SS, m) ==
  LET sign == IF minus = <<"-">> THEN -1 ELSE 1
      hours == IF Truthy(HH)
               THEN Mul(StringToNumber(SubSeq(HH.s, 1, Len(HH.s) - 1)), 60000)
               ELSE Num(0)
      decimal == IF Truthy(m) THEN Mul(StringToNumber(m.s), 1000) ELSE Num(0)
  IN  Mul(Add(Add(Add(hours, Mul(StringToNumber(MM), 60000)),
                  Mul(StringToNumber(SS), 1000)),
              decimal),
          sign)

\* Lines 80 to 84 of parseTimestamp: the number made of the groups.
TimestampOf(minus, HH, MM, SS, m) ==
  LET sign == IF minus = <<"-">> THEN -1 ELSE 1
      hours == IF Truthy(HH)
               THEN Mul(StringToNumber(SubSeq(HH.s, 1, Len(HH.s) - 1)), 3600000)
               ELSE Num(0)
      decimal == IF Truthy(m) THEN Mul(StringToNumber(m.s), 1000) ELSE Num(0)
  IN  Mul(Add(Add(Add(hours, Mul(StringToNumber(MM), 60000)),
                  Mul(StringToNumber(SS), 1000)),
              decimal),
          sign)

parseTimestamp(value) ==
  LET match == TIMESTAMP_REGEXP(value)
  IN  IF ~match.matched THEN Undefined
      ELSE NumV(TimestampOf(match.minus, match.HH, match.MM, match.SS, match.m))

(***************************************************************************)
(* src/types.ts                                                            *)
(*                                                                         *)
(* The record read (info, formatInfo, a stream's or a chapter's info) is a *)
(* record of JavaScript values with every field the code reads, a field    *)
(* the source lacks being Undefined, as a property read gives.  An object  *)
(* built is a record of its fields, class naming its constructor; a field  *)
(* the constructor leaves unset is Undefined.  Threw stands for a          *)
(* constructor that ended with a thrown TypeError.                         *)
(***************************************************************************)

Threw == [class |-> "TypeError"]

\* Object.entries(o) of a value: the own entries of an object, the indexed
\* elements of an array, the indexed characters of a string, and nothing of
\* a number or a boolean.
Entries(o) ==
  CASE o.t = "obj" -> o.e
    [] o.t = "arr" -> [i \in 1..Len(o.a) |-> <<IntDigits(0, i - 1), o.a[i]>>]
    [] o.t = "str" -> [i \in 1..Len(o.s) |-> <<IntDigits(0, i - 1), Str(<<o.s[i]>>)>>]
    [] OTHER -> <<>>

toLowerCase(entry) == <<LowerCase(entry[1]), ToText(entry[2])>>

\* new Map(entries): a key keeps the place of its first entry and the value
\* of its last.
RECURSIVE NewMap(_)
NewMap(entries) ==
  IF entries = <<>> THEN <<>>
  ELSE LET n == Len(entries)
           before == NewMap(SubSeq(entries, 1, n - 1))
           last == entries[n]
       IN  IF \E i \in 1..Len(before) : before[i][1] = last[1]
           THEN [i \in 1..Len(before) |->
                   IF before[i][1] = last[1] THEN last ELSE before[i]]
           ELSE Append(before, last)

\* The entries tags(o) maps: those of o, or of {} when o is falsy.
TagEntries(o) == IF Truthy(o) THEN Entries(o) ELSE <<>>

tags(o) ==
  LET es == TagEntries(o) IN NewMap([i \in 1..Len(es) |-> toLowerCase(es[i])])

\* tags(o) throws when the text of a value cannot be taken.
tagsThrows(o) == \E i \in 1..Len(TagEntries(o)) : Throws(TagEntries(o)[i][2])

NoCodecTag == <<"[", "0", "]", "[", "0", "]", "[", "0", "]", "[", "0", "]">>

codecTag(o) ==
  LET s == ToText(o) IN IF ~Truthy(o) \/ s = NoCodecTag THEN Null ELSE Str(s)

\* String.prototype.split on one character.
RECURSIVE Split(_, _)
Split(s, c) ==
  LET i == IndexOf(s, c)
  IN  IF i = 0 THEN <<s>>
      ELSE <<SubSeq(s, 1, i - 1)>> \o Split(SubSeq(s, i + 1, Len(s)), c)

\* a / b for finite a and b.  A quotient is kept as the pair it is the
\* quotient of (it need not be a finite decimal), except over 1.
Divide(a, b) ==
  IF IsZero(b) THEN (IF IsZero(a) THEN NaN ELSE IF IsNeg(a) THEN NegInf ELSE PosInf)
  ELSE IF b = Num(1) THEN a
  ELSE [k |-> "quot", a |-> a, b |-> b]

f64(fraction) ==
  LET parts == Split(ToText(fraction), "/")
      x == parts[1]
      y == IF Len(parts) >= 2 THEN parts[2] ELSE <<>>
      a == StringToNumber(x)
      b == StringToNumber(y)
  IN  IF x = <<>> \/ y = <<>> THEN Num(-1)
      ELSE IF a.k = "nan" \/ b.k = "nan" THEN Num(-1)
      ELSE Divide(a, b)

int(x) == Floor(ToNumber(x))

\* +x * 1000 | 0
Milliseconds(x) == ToInt32(Mul(ToNumber(x), 1000))

\* x * 1000000 | 0  (the product taken in two steps of 1000)
Microseconds(x) == ToInt32(Mul(Mul(ToNumber(x), 1000), 1000))

\* x >>> 0
Unsigned32(x) == ToUint32(ToNumber(x))

\* x | 0
Signed32(x) == ToInt32(ToNumber(x))

\* if (info.profile) this.profile = ('' + info.profile).toLowerCase()
Profile(x) == IF Truthy(x) THEN Str(LowerCase(ToText(x))) ELSE Undefined

\* The fields of info the BaseStream constructor coerces to a primitive.
BaseStreamReads ==
  {"index", "codec_long_name", "codec_tag_string", "start_time", "duration", "bit_rate"}

BaseStreamThrows(info) ==
  (\E f \in BaseStreamReads : Throws(info[f])) \/ tagsThrows(info.tags)

\* The fields the BaseStream constructor sets.
BaseStream(info) ==
  LET tag == codecTag(info.codec_tag_string)
  IN  [index |-> Unsigned32(info.index),
       codecName |-> ToText(info.codec_long_name),
       codecTag |-> IF Truthy(tag) THEN tag ELSE Undefined,
       start |-> Milliseconds(info.start_time),
       duration |-> Milliseconds(info.duration),
       bitrate |-> int(info.bit_rate),
       tags |-> tags(info.tags)]

\* r with the fields of q added.
Extend(r, q) ==
  [f \in DOMAIN r \cup DOMAIN q |-> IF f \in DOMAIN q THEN q[f] ELSE r[f]]

VideoStreamReads ==
  {"codec_name", "profile", "width", "height", "coded_width", "coded_height",
   "display_aspect_ratio", "pixel_format", "level", "color_range", "color_space",
   "color_transfer", "color_primaries", "chroma_location", "field_order",
   "frame_rate", "avg_frame_rate", "bits_per_raw_sample"}

VideoStream(info) ==
  IF BaseStreamThrows(info) \/ \E f \in VideoStreamReads : Throws(info[f]) THEN Threw
  ELSE Extend(BaseStream(info),
         [class |-> "VideoStream",
          type |-> <<"v", "i", "d", "e", "o">>,
          codec |-> ToText(info.codec_name),
          profile |-> Profile(info.profile),
          width |-> int(info.width),
          height |-> int(info.height),
          codedWidth |-> int(info.coded_width),
          codedHeight |-> int(info.coded_height),
          aspectRatio |-> ToText(info.display_aspect_ratio),
          pixelFormat |-> ToText(info.pixel_format),
          level |-> Unsigned32(info.level),
          colorRange |-> ToText(info.color_range),
          colorSpace |-> ToText(info.color_space),
          colorTransfer |-> ToText(info.color_transfer),
          colorPrimaries |-> ToText(info.color_primaries),
          chromaLocation |-> ToText(info.chroma_location),
          fieldOrder |-> ToText(info.field_order),
          frameRate |-> f64(info.frame_rate),
          avgFrameRate |-> f64(info.avg_frame_rate),
          bitsPerRawSample |-> Unsigned32(info.bits_per_raw_sample)])

AudioStreamReads ==
  {"codec_name", "profile", "sample_fmt", "sample_rate", "channels", "channel_layout",
   "bits_per_sample"}

AudioStream(info) ==
  IF BaseStreamThrows(info) \/ \E f \in AudioStreamReads : Throws(info[f]) THEN Threw
  ELSE Extend(BaseStream(info),
         [class |-> "AudioStream",
          type |-> <<"a", "u", "d", "i", "o">>,
          codec |-> ToText(info.codec_name),
          profile |-> Profile(info.profile),
          sampleFormat |-> ToText(info.sample_fmt),
          sampleRate |-> Unsigned32(info.sample_rate),
          channels |-> Unsigned32(info.channels),
          channelLayout |-> ToText(info.channel_layout),
          bitsPerSample |-> Unsigned32(info.bits_per_sample)])

SubtitleStream(info) ==
  IF BaseStreamThrows(info) \/ Throws(info.codec_name) THEN Threw
  ELSE Extend(BaseStream(info),
         [class |-> "SubtitleStream",
          type |-> <<"s", "u", "b", "t", "i", "t", "l", "e">>,
          codec |-> ToText(info.codec_name)])

DataStream(info) ==
  IF BaseStreamThrows(info) \/ Throws(info.codec_name) THEN Threw
  ELSE Extend(BaseStream(info),
         [class |-> "DataStream",
          type |-> <<"d", "a", "t", "a">>,
          codec |-> ToText(info.codec_name)])

\* The dispatch with the media type compared without regard to case.
toStream_IgnoringCase(streamInfo) ==
  IF Throws(streamInfo.codec_type) THEN Threw
  ELSE LET type == LowerCase(ToText(streamInfo.codec_type))
       IN  IF type = <<"v", "i", "d", "e", "o">> THEN VideoStream(streamInfo)
           ELSE IF type = <<"a", "u", "d", "i", "o">> THEN AudioStream(streamInfo)
           ELSE IF type = <<"s", "u", "b", "t", "i", "t", "l", "e">>
           THEN SubtitleStream(streamInfo)
           ELSE DataStream(streamInfo)

toStream(streamInfo) ==
  IF Throws(streamInfo.codec_type) THEN Threw
  ELSE LET type == ToText(streamInfo.codec_type)
       IN  IF type = <<"v", "i", "d", "e", "o">> THEN VideoStream(streamInfo)
           ELSE IF type = <<"a", "u", "d", "i", "o">> THEN AudioStream(streamInfo)
           ELSE IF type = <<"s", "u", "b", "t", "i", "t", "l", "e">>
           THEN SubtitleStream(streamInfo)
           ELSE DataStream(streamInfo)

Chapter(info) ==
  IF (\E f \in {"id", "start", "end"} : Throws(info[f])) \/ tagsThrows(info.tags)
  THEN Threw
  ELSE [class |-> "Chapter",
        id |-> Unsigned32(info.id),
        start |-> Microseconds(info.start),
        end |-> Microseconds(info.end),
        tags |-> tags(info.tags)]

FormatReads == {"format_name", "start_time", "duration", "bit_rate", "probe_score"}

ProbeResult(info) ==
  LET formatInfo == info.format
      \* Array.prototype.map.call(array, f)
      streams == [i \in 1..Len(info.streams) |-> toStream(info.streams[i])]
      chapters == [i \in 1..Len(info.chapters) |-> Chapter(info.chapters[i])]
  IN  IF \/ \E f \in FormatReads : Throws(formatInfo[f])
         \/ tagsThrows(formatInfo.tags)
         \/ \E i \in 1..Len(streams) : streams[i] = Threw
         \/ \E i \in 1..Len(chapters) : chapters[i] = Threw
      THEN Threw
      ELSE [class |-> "ProbeResult",
            format |-> ToText(formatInfo.format_name),
            start |-> Milliseconds(formatInfo.start_time),
            duration |-> Milliseconds(formatInfo.duration),
            bitrate |-> int(formatInfo.bit_rate),
            score |-> Signed32(formatInfo.probe_score),
            tags |-> tags(formatInfo.tags),
            streams |-> streams,
            chapters |-> chapters,
            \* privateMap.set(this, info): what unwrap() returns
            unwrapped |-> info]

(***************************************************************************)
(* Calls of src/string.ts                                                  *)
(***************************************************************************)

\* The state before a call returns holds no return value.
None == [t |-> "none"]

MaxStrLen == 3

MaxParams == 2

MaxFracLen == 4

MaxJunk == 1

\* The characters of the texts escaped: every character one of the four
\* functions escapes, and two that none does.
EscapeAlphabet == {"a", "=", "\\", "'", ":", "[", "]", ",", ";", " ", "|"}

EscapeTexts == SeqsUpTo(EscapeAlphabet, MaxStrLen)

\* The scalar values given as filter options.
OptionValues ==
  {Undefined, Null, Str(<<>>), Str(<<"a">>), Str(<<"a", ":", "b">>),
   Str(<<"[", "'", "\\">>), NumV(Num(100)), NumV(Num(-5)), Bool(TRUE), DateV(0),
   DateV(86399999)}

\* The option names.  (A name that reads as an array index would be listed
\* first by Object.entries; none here does.)
OptionKeys == {<<"w">>, <<"h">>, <<"a", ",">>}

FilterNames == {<<"s", "c">>, <<"[", "f", "]">>}

OptionArrays == {Arr(a) : a \in SeqsUpTo(OptionValues, MaxParams)}

\* Objects hold each key once.
OptionObjects ==
  {Obj([i \in 1..Len(ks) |-> <<ks[i], vs[i]>>]) :
     <<ks, vs>> \in
       UNION {{kv \in [1..n -> OptionKeys] \X [1..n -> OptionValues] :
                 \A i, j \in 1..n : i # j => kv[1][i] # kv[1][j]} : n \in 0..MaxParams}}

FilterOptions == {Undefined, Null} \cup OptionArrays \cup OptionObjects

EscapeOps ==
  {"escapeFilterValue", "escapeFilterDescription", "escapeConcatFile",
   "escapeTeeComponent"}

StringCalls ==
  (EscapeOps \X EscapeTexts)
  \cup ({"stringifyValue"} \X OptionValues)
  \cup ({"stringifyArrayColonSeparated"} \X OptionArrays)
  \cup ({"stringifyObjectColonSeparated"} \X OptionObjects)
  \cup ({"stringifyFilterDescription"}
          \X {[filter |-> f, options |-> o] : f \in FilterNames, o \in FilterOptions})

InitString ==
  /\ pc = "call"
  /\ ret = None
  /\ \E c \in StringCalls : op = c[1] /\ arg = c[2]

\* The call op(arg) returns r.
Return(name, r) ==
  /\ pc = "call"
  /\ op = name
  /\ ret' = r
  /\ pc' = "done"
  /\ UNCHANGED <<op, arg>>

CallEscapeFilterValue == Return("escapeFilterValue", escapeFilterValue(arg))

CallEscapeFilterDescription ==
  Return("escapeFilterDescription", escapeFilterDescription(arg))

CallEscapeConcatFile == Return("escapeConcatFile", escapeConcatFile(arg))

CallEscapeTeeComponent == Return("escapeTeeComponent", escapeTeeComponent(arg))

CallStringifyValue == Return("stringifyValue", stringifyValue(arg))

CallStringifyArrayColonSeparated ==
  Return("stringifyArrayColonSeparated", stringifyArrayColonSeparated(arg))

CallStringifyObjectColonSeparated ==
  Return("stringifyObjectColonSeparated", stringifyObjectColonSeparated(arg))

CallStringifyFilterDescription ==
  Return("stringifyFilterDescription",
         stringifyFilterDescription(arg.filter, arg.options))

NextString ==
  \/ CallEscapeFilterValue
  \/ CallEscapeFilterDescription
  \/ CallEscapeConcatFile
  \/ CallEscapeTeeComponent
  \/ CallStringifyValue
  \/ CallStringifyArrayColonSeparated
  \/ CallStringifyObjectColonSeparated
  \/ CallStringifyFilterDescription

SpecString == InitString /\ [][NextString]_vars

(***************************************************************************)
(* Calls of parseTimestamp                                                 *)
(***************************************************************************)

TimestampPairs == {<<"0", "0">>, <<"0", "5">>, <<"5", "9">>}

FractionDigits == {"0", "5", "9"}

\* The fractions: zeros, then one digit.
FractionTexts ==
  {[i \in 1..n |-> IF i = n THEN d ELSE "0"] : n \in 1..MaxFracLen, d \in FractionDigits}

\* The texts of the form [-][HH:]MM:SS[.fraction].
TimestampForms ==
  {sign \o hh \o mm \o <<":">> \o ss \o frac :
     sign \in {<<>>, <<"-">>},
     hh \in {<<>>} \cup {p \o <<":">> : p \in TimestampPairs},
     mm \in TimestampPairs,
     ss \in TimestampPairs,
     frac \in {<<>>} \cup {<<".">> \o d : d \in FractionTexts}}

\* Texts that hold no timestamp, or one in the middle.
OtherTexts ==
  {<<>>, <<"n", "o", "t", "-", "a", "-", "t", "i", "m", "e">>, <<"0", "5">>,
   <<"5", ":", "0", "5">>, <<"0", "5", ":", "5">>, <<"0", "5", ".", "0", "5">>,
   <<"0", "5", ":">>, <<"0", "5", "0", "5">>, <<"-", ":", "0", "5">>,
   <<"5", ":", "0", "0", ":", "5", "9", ":">>}

JunkChars == {"x", "5"}

Junk == SeqsUpTo(JunkChars, MaxJunk)

TimestampTexts ==
  {pre \o t \o suf : pre \in Junk, t \in TimestampForms \cup OtherTexts, suf \in Junk}

InitTimestamp ==
  /\ pc = "call"
  /\ ret = None
  /\ op = "parseTimestamp"
  /\ arg \in TimestampTexts

CallParseTimestamp == Return("parseTimestamp", parseTimestamp(arg))

NextTimestamp == CallParseTimestamp

SpecTimestamp == InitTimestamp /\ [][NextTimestamp]_vars

(***************************************************************************)
(* Calls of new ProbeResult(info)                                          *)
(***************************************************************************)

MaxStreams == 2

MaxChapters == 1

T(s) == Str(s)

\* The values a field of the probe record holds: missing, null, of the
\* right type, and of a wrong one.
ProbeValues ==
  {Undefined, Null, Bool(TRUE),
   NumV(Num(0)), NumV(Num(25)), NumV(Num(-1)), NumV(Fin(0, 1, 5, 10)),
   NumV(Fin(0, -2, 5, 10)), NumV(StringToNumber(<<"2", "1", "4", "7", "4", "8", "4">>)),
   NumV(Num(2148)),
   T(<<>>), T(<<"a", "b", "c">>), T(<<"2", "5">>), T(<<"-", "1", ".", "5">>),
   T(<<"2", "1", "4", "7", "4", "8", "4">>), T(<<"3", "0", "/", "1">>),
   T(<<"3", "0", "0", "0", "0", "/", "1", "0", "0", "1">>), T(<<"0", "/", "0">>),
   T(<<"1", "/", "0">>), T(<<"-", "1", "/", "0">>), T(<<"/">>), T(<<"1", "/">>),
   T(<<"a", "/", "b">>), T(NoCodecTag), T(<<"a", "v", "c", "1">>), T(<<"H", "i", "g", "h">>),
   Obj(<<>>),
   Obj(<< <<<<"T", "i", "t", "l", "e">>, T(<<"x">>)>>, <<<<"n">>, NumV(Num(5))>>,
          <<<<"T", "I", "T", "L", "E">>, T(<<"y">>)>> >>),
   Obj(<< <<<<"t", "o", "S", "t", "r", "i", "n", "g">>, NumV(Num(1))>> >>),
   Obj(<< <<<<"k">>, Obj(<< <<<<"t", "o", "S", "t", "r", "i", "n", "g">>, Null>> >>)>> >>),
   Arr(<<>>), Arr(<<T(<<"7">>)>>)}

\* The values of codec_type.
CodecTypes ==
  <<T(<<"v", "i", "d", "e", "o">>), T(<<"a", "u", "d", "i", "o">>),
    T(<<"s", "u", "b", "t", "i", "t", "l", "e">>), T(<<"d", "a", "t", "a">>),
    T(<<"V", "i", "d", "e", "o">>), Undefined, Arr(<<T(<<"v", "i", "d", "e", "o">>)>>)>>

StreamFields ==
  BaseStreamReads \cup VideoStreamReads \cup AudioStreamReads \cup {"codec_type", "tags"}

\* The i-th element of streams: codec_type is type, index is i - 1 when the
\* streams are numbered, and every other field holds v.
StreamInfo(type, v, numbered, i) ==
  [f \in StreamFields |->
     IF f = "codec_type" THEN type
     ELSE IF f = "index" /\ numbered THEN NumV(Num(i - 1))
     ELSE v]

\* The media types of n streams: those of CodecTypes in turn, from the
\* first-th on.
TypesFrom(first, n) == [i \in 1..n |-> CodecTypes[((first + i - 2) % Len(CodecTypes)) + 1]]

\* The probe record whose streams have the media types of types, that has n
\* chapters, and whose other fields hold v.
ProbeInfo(types, n, v, numbered) ==
  [format |-> [f \in FormatReads \cup {"tags"} |-> v],
   streams |-> [i \in 1..Len(types) |-> StreamInfo(types[i], v, numbered, i)],
   chapters |-> [i \in 1..n |-> [f \in {"id", "start", "end", "tags"} |-> v]]]

ProbeInfos ==
  {ProbeInfo(TypesFrom(first, k), n, v, numbered) :
     first \in 1..Len(CodecTypes), k \in 0..MaxStreams, n \in 0..MaxChapters,
     v \in ProbeValues, numbered \in BOOLEAN}

InitProbe ==
  /\ pc = "call"
  /\ ret = None
  /\ op = "ProbeResult"
  /\ arg \in ProbeInfos

NewProbeResult == Return("ProbeResult", ProbeResult(arg))

NextProbe == NewProbeResult

SpecProbe == InitProbe /\ [][NextProbe]_vars

(***************************************************************************)
(* Any call of either file                                                 *)
(***************************************************************************)

Init == InitString \/ InitTimestamp \/ InitProbe

Next == NextString \/ NextTimestamp \/ NextProbe

Spec == Init /\ [][Next]_vars

(***************************************************************************)
(* Properties of src/string.ts                                             *)
(***************************************************************************)

Returned(name) == pc = "done" /\ op = name

\* The options render to nothing on the face of them: a list or mapping
\* that is empty or holds only absent values.
AllAbsent(o) ==
  \/ o.t = "arr" /\ \A i \in 1..Len(o.a) : o.a[i].t \in {"undefined", "null"}
  \/ o.t = "obj" /\ \A i \in 1..Len(o.e) : o.e[i][2].t \in {"undefined", "null"}

\* C1: stringifyFilterDescription(name, params) returns name when params
\* is null or undefined, returns name when params is a list or mapping whose
\* rendered text is empty (an empty one, or one whose every value is
\* absent), and otherwise returns name, then "=", then the
\* filter-description escaping of the colon-separated rendering of params.
C1_NameOrNameEqualsEscapedOptions ==
  Returned("stringifyFilterDescription") =>
    LET o == arg.options
        rendered == IF o.t = "arr" THEN stringifyArrayColonSeparated(o)
                    ELSE stringifyObjectColonSeparated(o)
    IN  /\ o.t \in {"undefined", "null"} => ret = arg.filter
        /\ o.t \in {"arr", "obj"} /\ AllAbsent(o) => rendered = <<>> /\ ret = arg.filter
        /\ o.t \in {"arr", "obj"} /\ rendered = <<>> => ret = arg.filter
        /\ o.t \in {"arr", "obj"} /\ rendered # <<>> =>
             ret = arg.filter \o <<"=">> \o escapeFilterDescription(rendered)

\* A list with an absent value and a value that both escapings touch.
C1_Witness ==
  /\ Returned("stringifyFilterDescription")
  /\ arg.filter = <<"s", "c">>
  /\ arg.options = Arr(<<Null, Str(<<"[", "'", "\\">>)>>)
  /\ ret = <<"s", "c", "=", "\\", "[", "\\", "\\", "\\", "'", "\\", "\\", "\\", "\\">>

\* The entries of a mapping that are rendered: those whose value is present.
PresentEntries(o) ==
  SelectSeq(o.e, LAMBDA e : e[2].t \notin {"undefined", "null"})

\* C2, as stated: in the output for a mapping the keys and the "="
\* separators appear verbatim, and only the value portion of each key=value
\* pair is escaped.
C2_KeysVerbatim ==
  (Returned("stringifyFilterDescription") /\ arg.options.t = "obj"
     /\ PresentEntries(arg.options) # <<>>) =>
    LET es == PresentEntries(arg.options)
    IN  ret = arg.filter \o <<"=">>
              \o Join([i \in 1..Len(es) |->
                         es[i][1] \o <<"=">>
                         \o escapeFilterDescription(escapeFilterValue(stringifyValue(es[i][2])))],
                      <<":">>)

\* C2, amended: the "=" and ":" separators appear verbatim; each value is
\* escaped as a filter value before joining; and the whole rendered text,
\* keys included, is then escaped as a filter description, so that a key
\* appears with a backslash before each of its characters \ ' [ ] , ;
C2_SeparatorsVerbatimKeysDescriptionEscaped ==
  (Returned("stringifyFilterDescription") /\ arg.options.t = "obj"
     /\ PresentEntries(arg.options) # <<>>) =>
    LET es == PresentEntries(arg.options)
    IN  ret = arg.filter \o <<"=">>
              \o Join([i \in 1..Len(es) |->
                         EscapeChars(es[i][1], {"\\", "'", "[", "]", ",", ";"})
                         \o <<"=">>
                         \o EscapeChars(EscapeChars(stringifyValue(es[i][2]), {"\\", "'", ":"}),
                                        {"\\", "'", "[", "]", ",", ";"})],
                      <<":">>)

\* A mapping whose key holds a comma and whose value holds a colon.
C2_Witness ==
  /\ Returned("stringifyFilterDescription")
  /\ arg.filter = <<"s", "c">>
  /\ arg.options = Obj(<< <<<<"a", ",">>, Str(<<"a", ":", "b">>)>>, <<<<"w">>, Null>> >>)
  /\ ret = <<"s", "c", "=", "a", "\\", ",", "=", "a", "\\", "\\", ":", "b">>

\* The set of characters each escaping function is said to escape.
C3_Set(name) ==
  CASE name = "escapeFilterValue" -> {"\\", "'", ":"}
    [] name = "escapeFilterDescription" -> {"\\", "'", "[", "]", ",", ";"}
    [] name = "escapeConcatFile" -> {"\\", "'", " "}
    [] name = "escapeTeeComponent" -> {"\\", "'", " ", "|", "[", "]"}

\* out reads as a run of plain characters outside set and of pairs of a
\* backslash and a character of set.
RECURSIVE WellEscaped(_, _)
WellEscaped(out, set) ==
  IF out = <<>> THEN TRUE
  ELSE IF out[1] = "\\"
  THEN Len(out) >= 2 /\ out[2] \in set /\ WellEscaped(SubSeq(out, 3, Len(out)), set)
  ELSE out[1] \notin set /\ WellEscaped(Tail(out), set)

\* out with the backslash of each pair removed.
RECURSIVE Unescape(_)
Unescape(out) ==
  IF out = <<>> THEN <<>>
  ELSE IF out[1] = "\\" /\ Len(out) >= 2
  THEN <<out[2]>> \o Unescape(SubSeq(out, 3, Len(out)))
  ELSE <<out[1]>> \o Unescape(Tail(out))

\* C3: each escaping function puts exactly one backslash before each
\* character of its own set and copies every other character in order: the
\* output is a well-formed escaping that reads back as the input, it is
\* longer than the input by the number of set characters, and the empty
\* text gives the empty text.
C3_EscapesExactlyItsSet ==
  (pc = "done" /\ op \in EscapeOps) =>
    LET set == C3_Set(op)
    IN  /\ WellEscaped(ret, set)
        /\ Unescape(ret) = arg
        /\ Len(ret) = Len(arg) + Cardinality({i \in 1..Len(arg) : arg[i] \in set})
        /\ arg = <<>> => ret = <<>>

\* A tee component with a pipe, a space and a character left alone.
C3_Witness ==
  /\ Returned("escapeTeeComponent")
  /\ arg = <<"a", "|", " ">>
  /\ ret = <<"a", "\\", "|", "\\", " ">>

\* (\.[0-9]+)? up to the end of the text.
FractionForm(f) == f = <<>> \/ (Len(f) >= 2 /\ f[1] = "." /\ AllDigits(Tail(f)))

\* The text without its leading "-".
Unsigned(s) == IF s # <<>> /\ s[1] = "-" THEN Tail(s) ELSE s

HoursForm(b) ==
  /\ Len(b) >= 8
  /\ AllDigits(<<b[1], b[2], b[4], b[5], b[7], b[8]>>)
  /\ b[3] = ":" /\ b[6] = ":"
  /\ FractionForm(SubSeq(b, 9, Len(b)))

MinutesForm(b) ==
  /\ Len(b) >= 5
  /\ AllDigits(<<b[1], b[2], b[4], b[5]>>)
  /\ b[3] = ":"
  /\ FractionForm(SubSeq(b, 6, Len(b)))

\* The whole text has the form [-][HH:]MM:SS[.fraction].
TimestampForm(s) == HoursForm(Unsigned(s)) \/ MinutesForm(Unsigned(s))

\* C4: parseTimestamp returns a number exactly when the whole text has the
\* form [-][HH:]MM:SS[.fraction], and undefined for every other text,
\* among them the texts that hold such a form between other characters.
C4_NumberExactlyForWholeForm ==
  Returned("parseTimestamp") =>
    /\ ret.t \in {"num", "undefined"}
    /\ ret.t = "num" <=> TimestampForm(arg)

\* The value of two decimal digits.
TwoDigits(a, b) == 10 * DigitVal(a) + DigitVal(b)

\* sign * (HH * 3600000 + MM * 60000 + SS * 1000 + 0.fraction * 1000) for a
\* text of the form, read by position.
ExpectedMilliseconds(s) ==
  LET b == Unsigned(s)
      hasHours == HoursForm(b)
      HH == IF hasHours THEN TwoDigits(b[1], b[2]) ELSE 0
      r == IF hasHours THEN SubSeq(b, 4, Len(b)) ELSE b
      MM == TwoDigits(r[1], r[2])
      SS == TwoDigits(r[4], r[5])
      digits == SubSeq(r, 7, Len(r))
      F == IF digits = <<>> THEN Num(0)
           ELSE Fin(0, 0, DigitsToNum(digits).h * Base + DigitsToNum(digits).l,
                    Pow10(Len(digits)))
  IN  Mul(Add(Num(HH * 3600000 + MM * 60000 + SS * 1000), Mul(F, 1000)),
          IF b # s THEN -1 ELSE 1)

\* C5, as stated: for a text of the form the result is a signed integer
\* number of milliseconds equal to
\* sign * (HH * 3600000 + MM * 60000 + SS * 1000 + F * 1000).
C5_IntegerMilliseconds ==
  (Returned("parseTimestamp") /\ TimestampForm(arg)) =>
    ret.t = "num" /\ ret.n = ExpectedMilliseconds(arg) /\ IsInteger(ret.n)

\* C5, amended: for a text of the form the result is the number
\* sign * (HH * 3600000 + MM * 60000 + SS * 1000 + F * 1000), with HH 0 when
\* left out, F the number 0.fraction and sign -1 after a leading "-"; it is
\* not always an integer (00:00.0005 gives 0.5).
C5_Milliseconds ==
  (Returned("parseTimestamp") /\ TimestampForm(arg)) =>
    /\ ret.t = "num"
    /\ ret.n = ExpectedMilliseconds(arg)

\* -05:59:05.0005 is minus 5 h 59 min 5 s and half a millisecond.
C5_Witness ==
  /\ Returned("parseTimestamp")
  /\ arg = <<"-", "0", "5", ":", "5", "9", ":", "0", "5", ".", "0", "0", "0", "5">>
  /\ ret.t = "num"
  /\ NumToStr(ret.n) = <<"-", "2", "1", "5", "4", "5", "0", "0", "0", ".", "5">>

(***************************************************************************)
(* Properties of src/types.ts                                              *)
(***************************************************************************)

\* A ProbeResult was constructed.
Constructed == Returned("ProbeResult") /\ ret # Threw

\* A finite number: neither NaN nor an infinity.
IsFinite(x) == x.k \in {"fin", "quot"}

\* The numeric fields of a stream of each class.
NumericStreamFields(class) ==
  {"index", "start", "duration", "bitrate"}
  \cup (IF class = "VideoStream"
        THEN {"width", "height", "codedWidth", "codedHeight", "level", "frameRate",
              "avgFrameRate", "bitsPerRawSample"}
        ELSE IF class = "AudioStream" THEN {"sampleRate", "channels", "bitsPerSample"}
        ELSE {})

\* C6: after mapping a probe record every numeric field of the
\* ProbeResult, of each of its streams and of each of its chapters is a
\* finite number, never NaN or an infinity.
C6_NumericFieldsFinite ==
  Constructed =>
    /\ \A f \in {"start", "duration", "bitrate", "score"} : IsFinite(ret[f])
    /\ \A i \in 1..Len(ret.streams) :
         \A f \in NumericStreamFields(ret.streams[i].class) : IsFinite(ret.streams[i][f])
    /\ \A i \in 1..Len(ret.chapters) :
         \A f \in {"id", "start", "end"} : IsFinite(ret.chapters[i][f])

\* The fallback of each numeric field of a stream, by the rule of its kind:
\* -1 for a fraction, 0 for every other.
FallbackOf(f) == IF f \in {"frameRate", "avgFrameRate"} THEN Num(-1) ELSE Num(0)

\* The field of the source each numeric field of a stream is read from.
SourceOf(f) ==
  CASE f = "index" -> "index"
    [] f = "start" -> "start_time"
    [] f = "duration" -> "duration"
    [] f = "bitrate" -> "bit_rate"
    [] f = "width" -> "width"
    [] f = "height" -> "height"
    [] f = "codedWidth" -> "coded_width"
    [] f = "codedHeight" -> "coded_height"
    [] f = "level" -> "level"
    [] f = "frameRate" -> "frame_rate"
    [] f = "avgFrameRate" -> "avg_frame_rate"
    [] f = "bitsPerRawSample" -> "bits_per_raw_sample"
    [] f = "sampleRate" -> "sample_rate"
    [] f = "channels" -> "channels"
    [] f = "bitsPerSample" -> "bits_per_sample"

\* C7: constructing a ProbeResult from a record with a format object, a
\* streams array and a chapters array never throws, whatever values the
\* fields inside them hold, and a field whose source is missing gets its
\* fallback value.
C7_NeverThrowsAndFallsBack ==
  Returned("ProbeResult") =>
    /\ ret # Threw
    /\ \A f \in {"start_time", "duration", "bit_rate", "probe_score"} :
         arg.format[f] = Undefined =>
           ret[CASE f = "start_time" -> "start" [] f = "duration" -> "duration"
                 [] f = "bit_rate" -> "bitrate" [] f = "probe_score" -> "score"] = Num(0)
    /\ \A i \in 1..Len(ret.streams) :
         \A f \in NumericStreamFields(ret.streams[i].class) :
           arg.streams[i][SourceOf(f)] = Undefined => ret.streams[i][f] = FallbackOf(f)
    /\ \A i \in 1..Len(ret.chapters) :
         \A f \in {"id", "start", "end"} :
           arg.chapters[i][f] = Undefined => ret.chapters[i][f] = Num(0)

\* The class the media type text selects.
ClassOf(type) ==
  IF type = <<"v", "i", "d", "e", "o">> THEN "VideoStream"
  ELSE IF type = <<"a", "u", "d", "i", "o">> THEN "AudioStream"
  ELSE IF type = <<"s", "u", "b", "t", "i", "t", "l", "e">> THEN "SubtitleStream"
  ELSE "DataStream"

\* The type field of each class.
TypeOf(class) ==
  CASE class = "VideoStream" -> <<"v", "i", "d", "e", "o">>
    [] class = "AudioStream" -> <<"a", "u", "d", "i", "o">>
    [] class = "SubtitleStream" -> <<"s", "u", "b", "t", "i", "t", "l", "e">>
    [] class = "DataStream" -> <<"d", "a", "t", "a">>

TruncatedMilliseconds(source) ==
  LET x == ToNumber(source)
  IN  IF IsFin(x) THEN Trunc(Mul(x, 1000)) ELSE Num(0)

\* C9: every millisecond-time field (Stream.start, Stream.duration,
\* ProbeResult.start, ProbeResult.duration) is the source coerced to a
\* number, times 1000, truncated toward zero, also when the count of
\* milliseconds exceeds 2^31 - 1, and 0 when the source is missing or no
\* number.
C9_MillisecondsTruncated ==
  Constructed =>
    /\ ret.start = TruncatedMilliseconds(arg.format.start_time)
    /\ ret.duration = TruncatedMilliseconds(arg.format.duration)
    /\ \A i \in 1..Len(ret.streams) :
         /\ ret.streams[i].start = TruncatedMilliseconds(arg.streams[i].start_time)
         /\ ret.streams[i].duration = TruncatedMilliseconds(arg.streams[i].duration)

\* The floor of the source coerced to a number; 0 when it is no number.
Floored(source) ==
  LET x == ToNumber(source)
  IN  IF IsFin(x) THEN Floor(x) ELSE Num(0)

\* C10: every generic integer field (Stream.bitrate, ProbeResult.bitrate,
\* VideoStream.level, VideoStream.bitsPerRawSample) is the floor of the
\* source coerced to a number, for negative sources too, and 0 when the
\* source is missing or no number.
C10_GenericIntegersFloored ==
  Constructed =>
    /\ ret.bitrate = Floored(arg.format.bit_rate)
    /\ \A i \in 1..Len(ret.streams) :
         /\ ret.streams[i].bitrate = Floored(arg.streams[i].bit_rate)
         /\ ret.streams[i].class = "VideoStream" =>
              /\ ret.streams[i].level = Floored(arg.streams[i].level)
              /\ ret.streams[i].bitsPerRawSample
                   = Floored(arg.streams[i].bits_per_raw_sample)

====
